---------------------------- MODULE Spec2Model ----------------------------
(***************************************************************************)
(* RSA key management: the multi-prime generator (algorithms/generate.rs)  *)
(* and the key data model, constructors and validator (key.rs).            *)
(*                                                                         *)
(* Scale.  TLC's integers are 32 bit wide, so every width of the program   *)
(* is modelled at a reduced size; the relations between the widths that    *)
(* the code relies on are kept:                                            *)
(*                                                                         *)
(*   source                                   model                        *)
(*   Limb::BITS = 64, u64 (type of e)         LimbBits = 4                 *)
(*   precision ladder 64,128,...,16384        LimbBits * (1,2,...,256)     *)
(*   MAX_PUB_EXPONENT = 2^33 - 1  (< 2^64)    2^MaxPubExpBits - 1 = 7      *)
(*   EXP = 65537 = 2^16 + 1 (<= MAX_PUB_EXP)  5 = 2^2 + 1                  *)
(*   MAX_SIZE = 4096 bits                     16 bits                      *)
(*   generator: estimate when bit_size < 64   when bit_size < 14           *)
(*                                                                         *)
(* A fixed-precision integer (BoxedUint) is a record [v, prec]: its value  *)
(* and its precision in bits; wrapping operations reduce modulo 2^prec.    *)
(* An operation ends with a value, a typed error, or "Panic" (unwrap,      *)
(* expect or panic! in the source).                                        *)
(***************************************************************************)
EXTENDS Integers, Sequences, FiniteSets, TLC

VARIABLES
    pc,     \* position of the caller: "idle", "loop", "generated", "ready", "done", "abort"
    arg,    \* the arguments of the call in progress
    gen,    \* locals of the generator's retry loop
    key,    \* the key object built by the call, or NoKey
    res,    \* the result of the constructor / generator call
    val,    \* the result of the last validate() on key, "none" before
    rt,     \* the last encrypt / decrypt round trip, NoTrip before
    pres,   \* the result of the last explicit precompute() on key, "none" before
    freed   \* the secret buffers released so far: what they held and whether wiped

vars == <<pc, arg, gen, key, res, val, rt, pres, freed>>

(***************************************************************************)
(* Program constants (scaled as in the table above).                       *)
(***************************************************************************)
LimbBits == 4
MIN_PUB_EXPONENT == 2
MaxPubExpBits == 3
MAX_PUB_EXPONENT == (2 ^ MaxPubExpBits) - 1
MAX_SIZE == 16
EXP == 5
SmallBitSize == 14
ExtraBitsFrom == 7

(***************************************************************************)
(* Bounds of the model.                                                    *)
(***************************************************************************)
MaxPubN == 40
MaxPubE == 17
MaxMaxSize == 6
MaxNPrimes == 7
MaxBitSize == 21
MaxN == 15
MaxD == 5
MaxPrimes == 3
MaxMsg == 3
MaxBlind == 3
MaxTripBits == 14
MaxFairBits == 14
MaxLifePrimes == 3
MaxQuantBits == 1030
MaxQuantN == 300

NoKey == [kind |-> "none"]
NoTrip == [m |-> -1]
NoGen == [outcome |-> "none"]

(***************************************************************************)
(* Arithmetic helpers.                                                     *)
(***************************************************************************)
Max(a, b) == IF a >= b THEN a ELSE b

CeilDiv(a, b) == (a + b - 1) \div b

\* BigUint::bits / BoxedUint::bits: the bit length of a value (0 for 0).
RECURSIVE Bits(_)
Bits(x) == IF x = 0 THEN 0 ELSE 1 + Bits(x \div 2)

\* Reduction to w bits.  Every value of the model is below 2^31, so for
\* w >= 31 the reduction is the identity.
Wrap(x, w) == IF w >= 31 THEN x ELSE x % (2 ^ w)

RECURSIVE Gcd(_, _)
Gcd(a, b) == IF b = 0 THEN a ELSE Gcd(b, a % b)

Lcm(a, b) == IF a = 0 \/ b = 0 THEN 0 ELSE (a \div Gcd(a, b)) * b

\* a * b mod n by shift-and-add, so that no intermediate exceeds 2 * n.
RECURSIVE MulMod(_, _, _)
MulMod(a, b, n) ==
    IF b = 0 THEN 0
    ELSE LET h == MulMod(a, b \div 2, n)
             t == (h + h) % n
         IN  IF b % 2 = 1 THEN (t + (a % n)) % n ELSE t

\* a ^ x mod n by square-and-multiply.
RECURSIVE PowMod(_, _, _)
PowMod(a, x, n) ==
    IF x = 0 THEN 1 % n
    ELSE LET h == PowMod(a, x \div 2, n)
             s == MulMod(h, h, n)
         IN  IF x % 2 = 1 THEN MulMod(s, a, n) ELSE s

\* Extended Euclid: <<g, x, y>> with a * x + b * y = g = gcd(a, b).
RECURSIVE Egcd(_, _)
Egcd(a, b) ==
    IF b = 0 THEN <<a, 1, 0>>
    ELSE LET r == Egcd(b, a % b) IN <<r[1], r[3], r[2] - ((a \div b) * r[3])>>

\* The inverse of a modulo m where it exists, else -1.
InvMod(a, m) ==
    IF m < 1 THEN -1
    ELSE LET r == Egcd(a % m, m) IN IF r[1] # 1 THEN -1 ELSE r[2] % m

IsPrime(p) == p >= 2 /\ \A k \in 2..(p - 1) : k * k > p \/ p % k # 0

(***************************************************************************)
(* Precision adapters (key.rs).                                            *)
(***************************************************************************)
\* Variant of ladder_bucket whose comparisons are strict.
ladder_bucket_strict(n_bits) ==
    IF n_bits < LimbBits THEN LimbBits
    ELSE IF n_bits < 2 * LimbBits THEN 2 * LimbBits
    ELSE IF n_bits < 4 * LimbBits THEN 4 * LimbBits
    ELSE IF n_bits < 8 * LimbBits THEN 8 * LimbBits
    ELSE IF n_bits < 16 * LimbBits THEN 16 * LimbBits
    ELSE IF n_bits < 32 * LimbBits THEN 32 * LimbBits
    ELSE IF n_bits < 64 * LimbBits THEN 64 * LimbBits
    ELSE IF n_bits < 128 * LimbBits THEN 128 * LimbBits
    ELSE 256 * LimbBits

\* needed_bits after `let n_bits = n.bits()`: the chain of comparisons.
ladder_bucket(n_bits) ==
    IF n_bits <= LimbBits THEN LimbBits
    ELSE IF n_bits <= 2 * LimbBits THEN 2 * LimbBits
    ELSE IF n_bits <= 4 * LimbBits THEN 4 * LimbBits
    ELSE IF n_bits <= 8 * LimbBits THEN 8 * LimbBits
    ELSE IF n_bits <= 16 * LimbBits THEN 16 * LimbBits
    ELSE IF n_bits <= 32 * LimbBits THEN 32 * LimbBits
    ELSE IF n_bits <= 64 * LimbBits THEN 64 * LimbBits
    ELSE IF n_bits <= 128 * LimbBits THEN 128 * LimbBits
    ELSE 256 * LimbBits

\* needed_bits: the ladder bucket of a value's bit length.
needed_bits(n) == ladder_bucket(Bits(n))

\* The precision inner_to_uint gives a value of n_bits bits: whole limbs, at
\* least one.
inner_prec(n_bits) == LimbBits * Max(1, CeilDiv(n_bits, LimbBits))

\* The precision to_uint gives a value of n_bits bits: the ladder bucket when
\* that is wider than the whole limbs.
to_uint_prec(n_bits) ==
    LET nbits == ladder_bucket(n_bits)
        r == inner_prec(n_bits)
    IN  IF r < nbits THEN nbits ELSE r

\* inner_to_uint: the bytes of the value padded to whole limbs (zero is one byte).
inner_to_uint(x) == [v |-> x, prec |-> inner_prec(Bits(x))]

\* to_uint: widened to the ladder bucket when that is wider.
to_uint(x) ==
    LET nbits == needed_bits(x)
        r == inner_to_uint(x)
    IN  IF r.prec < nbits THEN [v |-> x, prec |-> nbits] ELSE r

\* to_uint_exact: the value at exactly nbits; panics (ok = FALSE) when it is wider.
to_uint_exact(x, nbits) ==
    LET r == inner_to_uint(x)
    IN  [ok |-> ~(r.prec > nbits), u |-> [v |-> x, prec |-> nbits]]

\* to_biguint: the value without its precision.
to_biguint(u) == u.v

\* BoxedUint::wrapping_mul: the product at the precision of the left operand.
wrapping_mul(a, b) == [v |-> Wrap(a.v * b.v, a.prec), prec |-> a.prec]

\* BoxedUint::wrapping_sub at the precision of the left operand.
wrapping_sub(a, b) ==
    [v |-> IF a.v >= b.v THEN a.v - b.v ELSE (2 ^ a.prec) - (b.v - a.v), prec |-> a.prec]

\* BoxedUint::widen: the same value at a larger precision.
widen(a, w) == [v |-> a.v, prec |-> w]

\* BoxedUint::shorten: the low limbs kept, whatever the limbs cut off hold.
shorten(a, w) == [v |-> Wrap(a.v, w), prec |-> w]

\* reduce: the input brought to the precision of the modulus, then its
\* remainder; p is the modulus of the reduction context, which is odd.
reduce(n, p) ==
    LET bits_precision == p.prec
        x == IF n.prec < bits_precision THEN widen(n, bits_precision)
             ELSE IF n.prec = bits_precision THEN n
             ELSE shorten(n, bits_precision)
    IN  IF p.v = 0 THEN [ok |-> FALSE, r |-> 0]
        ELSE [ok |-> TRUE, r |-> x.v % p.v]

(***************************************************************************)
(* Public key checks (key.rs).                                             *)
(***************************************************************************)
\* BigUint::to_u64: the value when it fits the exponent's machine word.
FitsU64(e) == e < 2 ^ LimbBits

\* Variant of check_public_with_max_size whose modulus test lets e = n through.
check_public_e_le_n(n, e, max_size) ==
    IF Bits(n) > max_size THEN "ModulusTooLarge"
    ELSE IF ~FitsU64(e) THEN "PublicExponentTooLarge"
    ELSE IF e > n \/ n % 2 = 0 THEN "InvalidModulus"
    ELSE IF e % 2 = 0 THEN "InvalidExponent"
    ELSE IF e < MIN_PUB_EXPONENT THEN "PublicExponentTooSmall"
    ELSE IF e > MAX_PUB_EXPONENT THEN "PublicExponentTooLarge"
    ELSE "Ok"

\* check_public_with_max_size, in the order of the source.
check_public_with_max_size(n, e, max_size) ==
    IF Bits(n) > max_size THEN "ModulusTooLarge"
    ELSE IF ~FitsU64(e) THEN "PublicExponentTooLarge"
    ELSE IF e >= n \/ n % 2 = 0 THEN "InvalidModulus"
    ELSE IF e % 2 = 0 THEN "InvalidExponent"
    ELSE IF e < MIN_PUB_EXPONENT THEN "PublicExponentTooSmall"
    ELSE IF e > MAX_PUB_EXPONENT THEN "PublicExponentTooLarge"
    ELSE "Ok"

\* check_public: the check at the default size limit.
check_public(n, e) == check_public_with_max_size(n, e, MAX_SIZE)

\* BoxedResidueParams::new(m).unwrap(): panics unless the modulus is odd.
ResidueParamsOk(m) == m % 2 = 1

\* RsaPublicKey::new_with_max_size: the checks, then the key {n, e, n_params}.
new_with_max_size(n, e, max_size) ==
    LET c == check_public_with_max_size(n, e, max_size)
    IN  IF c # "Ok" THEN [res |-> c, key |-> NoKey]
        ELSE IF ~ResidueParamsOk(n) \/ n = 0 THEN [res |-> "Panic", key |-> NoKey]
        ELSE [res |-> "Ok", key |-> [kind |-> "public", n |-> to_uint(n), e |-> e]]

(***************************************************************************)
(* Component algebra (algorithms/rsa.rs).                                  *)
(***************************************************************************)
RECURSIVE Product(_)
Product(s) == IF s = <<>> THEN 1 ELSE Head(s) * Product(Tail(s))

\* compute_modulus: the product of the primes.
compute_modulus(primes) == Product(primes)

RECURSIVE LcmPred(_)
LcmPred(s) == IF s = <<>> THEN 1 ELSE Lcm(Head(s) - 1, LcmPred(Tail(s)))

\* compute_private_exponent_euler_totient: e^-1 mod lcm(p_i - 1), or -1 (no inverse).
compute_private_exponent_euler_totient(primes, e) ==
    CHOOSE d \in {IF l < 1 THEN -1 ELSE InvMod(e, l) : l \in {LcmPred(primes)}} : TRUE

\* compute_private_exponent_carmicheal: e^-1 mod lcm(p - 1, q - 1), or -1.
compute_private_exponent_carmicheal(p, q, e) ==
    LET l == Lcm(p - 1, q - 1) IN IF l < 1 THEN -1 ELSE InvMod(e, l)

\* rsa_encrypt: m^e mod n.
rsa_encrypt(k, m) == PowMod(m, k.e, k.n.v)

Distinct(s) == \A i, j \in 1..Len(s) : i # j => s[i] # s[j]

SeqOf(S, lo, hi) == UNION {[1..k -> S] : k \in lo..hi}

Vals(primes) == [i \in 1..Len(primes) |-> primes[i].v]

(***************************************************************************)
(* RsaPrivateKey (key.rs).                                                 *)
(***************************************************************************)
None == [some |-> FALSE]

One(w) == [v |-> 1, prec |-> w]

\* Variant of precompute that reduces d modulo p - 1 for both CRT exponents.
precompute_dq_mod_p(k) ==
    IF k.precomputed # None THEN [res |-> "Ok", key |-> k]
    ELSE IF Len(k.primes) < 2 THEN [res |-> "Panic", key |-> k]
    ELSE LET d == k.d
             p == k.primes[1]
             q == k.primes[2]
         IN  IF ~ResidueParamsOk(p.v) \/ ~ResidueParamsOk(q.v)
                THEN [res |-> "Panic", key |-> k]
             ELSE IF wrapping_sub(p, One(p.prec)).v = 0 \/ wrapping_sub(q, One(q.prec)).v = 0
                THEN [res |-> "Panic", key |-> k]
             ELSE LET dp == d.v % wrapping_sub(p, One(p.prec)).v
                      dq == d.v % wrapping_sub(p, One(p.prec)).v
                      qinv == InvMod(q.v, p.v)
                  IN  IF qinv = -1 THEN [res |-> "InvalidPrime", key |-> k]
                      ELSE [res |-> "Ok",
                            key |-> [k EXCEPT !.precomputed =
                                       [some |-> TRUE, dp |-> dp, dq |-> dq, qinv |-> qinv,
                                        p_params |-> p.v, q_params |-> q.v]]]

\* Variant of precompute that reduces d modulo p instead of p - 1 for dp.
precompute_dp_mod_p(k) ==
    IF k.precomputed # None THEN [res |-> "Ok", key |-> k]
    ELSE IF Len(k.primes) < 2 THEN [res |-> "Panic", key |-> k]
    ELSE LET d == k.d
             p == k.primes[1]
             q == k.primes[2]
         IN  IF ~ResidueParamsOk(p.v) \/ ~ResidueParamsOk(q.v)
                THEN [res |-> "Panic", key |-> k]
             ELSE IF wrapping_sub(p, One(p.prec)).v = 0 \/ wrapping_sub(q, One(q.prec)).v = 0
                THEN [res |-> "Panic", key |-> k]
             ELSE LET dp == d.v % p.v
                      dq == d.v % wrapping_sub(q, One(q.prec)).v
                      qinv == InvMod(q.v, p.v)
                  IN  IF qinv = -1 THEN [res |-> "InvalidPrime", key |-> k]
                      ELSE [res |-> "Ok",
                            key |-> [k EXCEPT !.precomputed =
                                       [some |-> TRUE, dp |-> dp, dq |-> dq, qinv |-> qinv,
                                        p_params |-> p.v, q_params |-> q.v]]]

\* Variant of precompute whose test for a present cache takes the cache away.
precompute_take(k) ==
    IF k.precomputed # None THEN [res |-> "Ok", key |-> [k EXCEPT !.precomputed = None]]
    ELSE IF Len(k.primes) < 2 THEN [res |-> "Panic", key |-> k]
    ELSE LET d == k.d
             p == k.primes[1]
             q == k.primes[2]
         IN  IF ~ResidueParamsOk(p.v) \/ ~ResidueParamsOk(q.v)
                THEN [res |-> "Panic", key |-> k]
             ELSE IF wrapping_sub(p, One(p.prec)).v = 0 \/ wrapping_sub(q, One(q.prec)).v = 0
                THEN [res |-> "Panic", key |-> k]
             ELSE LET dp == d.v % wrapping_sub(p, One(p.prec)).v
                      dq == d.v % wrapping_sub(q, One(q.prec)).v
                      qinv == InvMod(q.v, p.v)
                  IN  IF qinv = -1 THEN [res |-> "InvalidPrime", key |-> k]
                      ELSE [res |-> "Ok",
                            key |-> [k EXCEPT !.precomputed =
                                       [some |-> TRUE, dp |-> dp, dq |-> dq, qinv |-> qinv,
                                        p_params |-> p.v, q_params |-> q.v]]]

\* Variant of precompute that inverts primes[0] modulo primes[1] for qinv.
precompute_pinv(k) ==
    IF k.precomputed # None THEN [res |-> "Ok", key |-> k]
    ELSE IF Len(k.primes) < 2 THEN [res |-> "Panic", key |-> k]
    ELSE LET d == k.d
             p == k.primes[1]
             q == k.primes[2]
         IN  IF ~ResidueParamsOk(p.v) \/ ~ResidueParamsOk(q.v)
                THEN [res |-> "Panic", key |-> k]
             ELSE IF wrapping_sub(p, One(p.prec)).v = 0 \/ wrapping_sub(q, One(q.prec)).v = 0
                THEN [res |-> "Panic", key |-> k]
             ELSE LET dp == d.v % wrapping_sub(p, One(p.prec)).v
                      dq == d.v % wrapping_sub(q, One(q.prec)).v
                      qinv == InvMod(p.v, q.v)
                  IN  IF qinv = -1 THEN [res |-> "InvalidPrime", key |-> k]
                      ELSE [res |-> "Ok",
                            key |-> [k EXCEPT !.precomputed =
                                       [some |-> TRUE, dp |-> dp, dq |-> dq, qinv |-> qinv,
                                        p_params |-> p.v, q_params |-> q.v]]]

\* precompute: the CRT values of primes[0] and primes[1]; [res, key].
precompute(k) ==
    IF k.precomputed # None THEN [res |-> "Ok", key |-> k]
    ELSE IF Len(k.primes) < 2 THEN [res |-> "Panic", key |-> k]
    ELSE LET d == k.d
             p == k.primes[1]
             q == k.primes[2]
         IN  IF ~ResidueParamsOk(p.v) \/ ~ResidueParamsOk(q.v)
                THEN [res |-> "Panic", key |-> k]
             ELSE IF wrapping_sub(p, One(p.prec)).v = 0 \/ wrapping_sub(q, One(q.prec)).v = 0
                THEN [res |-> "Panic", key |-> k]
             ELSE LET dp == d.v % wrapping_sub(p, One(p.prec)).v
                      dq == d.v % wrapping_sub(q, One(q.prec)).v
                      qinv == InvMod(q.v, p.v)
                  IN  IF qinv = -1 THEN [res |-> "InvalidPrime", key |-> k]
                      ELSE [res |-> "Ok",
                            key |-> [k EXCEPT !.precomputed =
                                       [some |-> TRUE, dp |-> dp, dq |-> dq, qinv |-> qinv,
                                        p_params |-> p.v, q_params |-> q.v]]]

\* validate, first loop: the wrapping product of the primes, a zero prime rejected.
RECURSIVE ProductLoop(_, _, _)
ProductLoop(primes, i, m) ==
    IF i > Len(primes) THEN [err |-> "none", m |-> m]
    ELSE IF primes[i].v < 1 THEN [err |-> "InvalidPrime", m |-> m]
    ELSE ProductLoop(primes, i + 1, wrapping_mul(m, primes[i]))

\* validate, second loop: de mod (prime - 1) must be one for each prime.
RECURSIVE CongruenceLoop(_, _, _, _)
CongruenceLoop(primes, i, de, w) ==
    IF i > Len(primes) THEN "Ok"
    ELSE LET prime == widen(primes[i], w)
             x == wrapping_sub(prime, One(w))
         IN  IF x.v = 0 THEN "Panic"
             ELSE IF de.v % x.v # 1 THEN "InvalidExponent"
             ELSE CongruenceLoop(primes, i + 1, de, w)

\* Variant of validate that forms d * e at the precision of d, without widening.
validate_narrow(k) ==
    LET pub == check_public(k.n.v, k.e)
        m == ProductLoop(k.primes, 1, One(k.n.prec))
        d == k.d
        de == wrapping_mul(d, [v |-> k.e, prec |-> LimbBits])
    IN  IF pub # "Ok" THEN pub
        ELSE IF m.err # "none" THEN m.err
        ELSE IF m.m.v # k.n.v THEN "InvalidModulus"
        ELSE CongruenceLoop(k.primes, 1, de, d.prec)

\* validate: "Ok", the first violated check, or "Panic".
validate(k) ==
    LET pub == check_public(k.n.v, k.e)
        m == ProductLoop(k.primes, 1, One(k.n.prec))
        d == widen(k.d, 2 * k.d.prec)
        de == wrapping_mul(d, [v |-> k.e, prec |-> LimbBits])
    IN  IF pub # "Ok" THEN pub
        ELSE IF m.err # "none" THEN m.err
        ELSE IF m.m.v # k.n.v THEN "InvalidModulus"
        ELSE CongruenceLoop(k.primes, 1, de, d.prec)

\* recover_primes (NIST SP 800-56B r2, appendix C.2): <<p, q>>, or <<>> on failure.
recover_primes(n, e, d) ==
    IF e < EXP - 1 \/ n < 1 \/ d * e < 1 THEN <<>>
    ELSE LET a == ((d * e) - 1) * Gcd(n - 1, (d * e) - 1)
             m == a \div n
             r == a - (m * n)
             b == ((n - r) \div (m + 1)) + 1
             g2 == (b * b) - (4 * n)
         IN  IF (n - r) % (m + 1) # 0 \/ g2 <= 0 THEN <<>>
             ELSE IF ~\E g \in 1..b : g * g = g2 THEN <<>>
             ELSE LET g == CHOOSE g \in 1..b : g * g = g2
                  IN  <<(b + g) \div 2, (b - g) \div 2>>

\* Variant of from_components_new that takes a single prime as it is.
from_components_new_one_prime(n, e, d, primes) ==
    IF ~ResidueParamsOk(n.v) \/ n.v = 0 THEN [res |-> "Panic", key |-> NoKey]
    ELSE LET nbits == n.prec
             rec == IF primes = <<>> THEN recover_primes(to_biguint(n), e, to_biguint(d))
                    ELSE <<>>
             should_validate == primes = <<>>
         IN  IF should_validate /\ rec = <<>> THEN [res |-> "RecoverFailed", key |-> NoKey]
             ELSE IF should_validate /\ \E i \in 1..2 : ~to_uint_exact(rec[i], nbits).ok
                THEN [res |-> "Panic", key |-> NoKey]
             ELSE LET ps == IF should_validate
                            THEN [i \in 1..2 |-> to_uint_exact(rec[i], nbits).u]
                            ELSE primes
                      k == [kind |-> "private", n |-> n, e |-> e, d |-> d,
                            primes |-> ps, precomputed |-> None]
                      v == IF should_validate THEN validate(k) ELSE "Ok"
                      pre == precompute(k)
                  IN  IF v # "Ok" THEN [res |-> v, key |-> NoKey]
                      ELSE IF pre.res = "Panic" THEN [res |-> "Panic", key |-> NoKey]
                      ELSE [res |-> "Ok", key |-> pre.key]

\* from_components_new: [res, key]; the key is built only when res = "Ok".
from_components_new(n, e, d, primes) ==
    IF ~ResidueParamsOk(n.v) \/ n.v = 0 THEN [res |-> "Panic", key |-> NoKey]
    ELSE LET nbits == n.prec
             rec == IF primes = <<>> THEN recover_primes(to_biguint(n), e, to_biguint(d))
                    ELSE <<>>
             should_validate == primes = <<>>
         IN  IF Len(primes) = 1 THEN [res |-> "NprimesTooSmall", key |-> NoKey]
             ELSE IF should_validate /\ rec = <<>> THEN [res |-> "RecoverFailed", key |-> NoKey]
             ELSE IF should_validate /\ \E i \in 1..2 : ~to_uint_exact(rec[i], nbits).ok
                THEN [res |-> "Panic", key |-> NoKey]
             ELSE LET ps == IF should_validate
                            THEN [i \in 1..2 |-> to_uint_exact(rec[i], nbits).u]
                            ELSE primes
                      k == [kind |-> "private", n |-> n, e |-> e, d |-> d,
                            primes |-> ps, precomputed |-> None]
                      v == IF should_validate THEN validate(k) ELSE "Ok"
                      pre == precompute(k)
                  IN  IF v # "Ok" THEN [res |-> v, key |-> NoKey]
                      ELSE IF pre.res = "Panic" THEN [res |-> "Panic", key |-> NoKey]
                      ELSE [res |-> "Ok", key |-> pre.key]

\* from_components: the conversions to fixed precision, then from_components_new.
from_components(n, e, d, primes) ==
    LET nu == to_uint(n)
        nbits == nu.prec
        du == to_uint_exact(d, nbits)
        pu == [i \in 1..Len(primes) |-> to_uint_exact(primes[i], nbits)]
    IN  IF ~FitsU64(e) THEN [res |-> "InvalidExponent", key |-> NoKey]
        ELSE IF ~du.ok \/ \E i \in 1..Len(primes) : ~pu[i].ok
           THEN [res |-> "Panic", key |-> NoKey]
        ELSE from_components_new(nu, e, du.u, [i \in 1..Len(primes) |-> pu[i].u])

\* from_p_q: p == q rejected, n and d derived, then from_components.
from_p_q(p, q, public_exponent) ==
    IF p = q THEN [res |-> "InvalidPrime", key |-> NoKey]
    ELSE LET n == compute_modulus(<<p, q>>)
             d == compute_private_exponent_carmicheal(p, q, public_exponent)
         IN  IF d = -1 THEN [res |-> "InvalidPrime", key |-> NoKey]
             ELSE from_components(n, public_exponent, d, <<p, q>>)

\* Variant of from_primes that compares only neighbouring primes.
from_primes_adjacent(primes, public_exponent) ==
    IF Len(primes) < 2 THEN [res |-> "NprimesTooSmall", key |-> NoKey]
    ELSE IF \E i \in 1..(Len(primes) - 1) : primes[i] = primes[i + 1]
       THEN [res |-> "InvalidPrime", key |-> NoKey]
    ELSE LET n == compute_modulus(primes)
             d == compute_private_exponent_euler_totient(primes, public_exponent)
         IN  IF d = -1 THEN [res |-> "InvalidPrime", key |-> NoKey]
             ELSE from_components(n, public_exponent, d, primes)

\* from_primes: fewer than two or two equal primes rejected, then from_components.
from_primes(primes, public_exponent) ==
    IF Len(primes) < 2 THEN [res |-> "NprimesTooSmall", key |-> NoKey]
    ELSE IF ~Distinct(primes) THEN [res |-> "InvalidPrime", key |-> NoKey]
    ELSE LET n == compute_modulus(primes)
             d == compute_private_exponent_euler_totient(primes, public_exponent)
         IN  IF d = -1 THEN [res |-> "InvalidPrime", key |-> NoKey]
             ELSE from_components(n, public_exponent, d, primes)

\* rsa_decrypt (algorithms/rsa.rs): with the cache of a two-prime key the CRT
\* recombination of c^dp mod p and c^dq mod q, otherwise c^d mod n; with
\* blinding, c is multiplied by r^e before and the result by r^-1 after.
rsa_decrypt_raw(k, c) ==
    IF k.precomputed # None /\ Len(k.primes) = 2
    THEN LET pre == k.precomputed
             p == k.primes[1].v
             q == k.primes[2].v
             m1 == PowMod(c, pre.dp, p)
             m2 == PowMod(c, pre.dq, q)
             h == MulMod(pre.qinv, (m1 + p - (m2 % p)) % p, p)
         IN  (m2 + h * q) % k.n.v
    ELSE PowMod(c, k.d.v, k.n.v)

\* r = 0 stands for "no blinding randomness supplied".
rsa_decrypt(k, c, r) ==
    IF r = 0 THEN rsa_decrypt_raw(k, c)
    ELSE LET n == k.n.v
             blinded == MulMod(c, PowMod(r, k.e, n), n)
             m == rsa_decrypt_raw(k, blinded)
         IN  MulMod(m, InvMod(r, n), n)

(***************************************************************************)
(* The multi-prime generator (algorithms/generate.rs).                     *)
(***************************************************************************)
\* 1000 * pi for prime_limit = 2^k: prime_limit / (ln(prime_limit) - 1) / 4 / 2.
PiMilli(k) ==
    CASE k = 0 -> -125
      [] k = 1 -> -815
      [] k = 2 -> 1294
      [] k = 3 -> 926
      [] k = 4 -> 1128
      [] k = 5 -> 1622
      [] k = 6 -> 2532
      [] k = 7 -> 4153
      [] k = 8 -> 7040
      [] k = 9 -> 12217
      [] k = 10 -> 21579
      [] OTHER -> 38643

\* Variant of size_check that applies the estimate whatever the bit size.
size_check_unguarded(nprimes, bit_size) ==
    IF nprimes < 2 THEN "NprimesTooSmall"
    ELSE IF PiMilli(bit_size \div nprimes) < 1000 * nprimes THEN "TooFewPrimes"
    ELSE "Ok"

\* The size checks at the head of generate_multi_prime_key_with_exp.
size_check(nprimes, bit_size) ==
    IF nprimes < 2 THEN "NprimesTooSmall"
    ELSE IF bit_size < SmallBitSize /\ PiMilli(bit_size \div nprimes) < 1000 * nprimes
         THEN "TooFewPrimes"
    ELSE "Ok"

\* The bit budget a round starts from.
initial_todo(nprimes, bit_size) ==
    IF nprimes >= ExtraBitsFrom THEN bit_size + ((nprimes - 2) \div 5) ELSE bit_size

\* generate_prime_with_rng: the primes of exactly bit_length bits whose two
\* most significant bits are set.
generate_prime_with_rng(bit_length) ==
    IF bit_length < 2 THEN {}
    ELSE {p \in (3 * (2 ^ (bit_length - 2)))..((2 ^ bit_length) - 1) : IsPrime(p)}

\* Variant of prime_bits that divides todo by the number of all primes.
prime_bits_even(todo, nprimes, i) == todo \div nprimes

\* The bits asked for prime i (0-based): todo / (nprimes - i).
prime_bits(todo, nprimes, i) == todo \div (nprimes - i)

\* The prime lists one round can draw: prime i of todo / (nprimes - i) bits,
\* todo then reduced by the bit length of the prime drawn.
RECURSIVE Draws(_, _, _)
Draws(i, nprimes, todo) ==
    IF i = nprimes THEN {<<>>}
    ELSE UNION {{<<p>> \o rest : rest \in Draws(i + 1, nprimes, todo - Bits(p))} :
                p \in generate_prime_with_rng(prime_bits(todo, nprimes, i))}

\* The bit budget of one round over the primes it drew: the bits asked for
\* prime i (todo / (nprimes - i)), todo after the last prime, and the lowest
\* value todo took.
RECURSIVE round_budget(_, _, _)
round_budget(primes, i, todo) ==
    IF i = Len(primes) THEN [req |-> <<>>, todo |-> todo, low |-> todo]
    ELSE LET bits == prime_bits(todo, Len(primes), i)
             rest == round_budget(primes, i + 1, todo - Bits(primes[i + 1]))
         IN  [req |-> <<bits>> \o rest.req, todo |-> rest.todo,
              low |-> IF rest.low < todo THEN rest.low ELSE todo]

\* What a round leaves of its budget: where todo started, the bits asked for,
\* todo at the end and at its lowest, and whether every prime drawn had
\* exactly the length asked for.
round_trace(primes, nprimes, bit_size) ==
    LET start == initial_todo(nprimes, bit_size)
        b == round_budget(primes, 0, start)
    IN  [start |-> start, req |-> b.req, todo |-> b.todo, low |-> b.low,
         exact |-> \A i \in 1..Len(primes) : Bits(primes[i]) = b.req[i]]

\* Variant of round_checks without the test of the modulus' bit length.
round_checks_no_bits(primes, bit_size, exp) ==
    LET n == compute_modulus(primes)
        d == compute_private_exponent_euler_totient(primes, exp)
    IN  IF ~Distinct(primes) THEN [outcome |-> "dup"]
        ELSE IF d = -1 THEN [outcome |-> "noinv"]
        ELSE [outcome |-> "ok", primes |-> primes, n |-> n, d |-> d]

\* The checks that end a round: "dup", "bits" and "noinv" discard the round (its
\* primes are all drawn anew by the next one), "ok" ends the loop with n and d.
round_checks(primes, bit_size, exp) ==
    LET n == compute_modulus(primes)
        d == compute_private_exponent_euler_totient(primes, exp)
    IN  IF ~Distinct(primes) THEN [outcome |-> "dup"]
        ELSE IF Bits(n) # bit_size THEN [outcome |-> "bits"]
        ELSE IF d = -1 THEN [outcome |-> "noinv"]
        ELSE [outcome |-> "ok", primes |-> primes, n |-> n, d |-> d]

\* A secret buffer at the moment its memory is released: what it held and
\* whether its content was zero.
Released(what, v) == [what |-> what, zero |-> v = 0]

\* BoxedUint::zeroize: the value overwritten with zero.
zeroize_uint(u) == [u EXCEPT !.v = 0]

\* Zeroize for PrecomputedValues: dp and dq overwritten, qinv and the contexts kept.
zeroize_precomputed(c) == [c EXCEPT !.dp = 0, !.dq = 0]

\* Drop for PrecomputedValues: zeroize, then the fields are released.
drop_precomputed(c) ==
    LET z == zeroize_precomputed(c)
    IN  {Released("dp", z.dp), Released("dq", z.dq)}

\* Variant of drop_key that zeroizes d and the cache but not the primes.
drop_key_primes_kept(k) ==
    LET d == zeroize_uint(k.d)
        primes == k.primes
        cache == IF k.precomputed = None THEN {}
                 ELSE drop_precomputed(zeroize_precomputed(k.precomputed))
    IN  {Released("d", d.v)} \cup {Released("prime", primes[i].v) : i \in 1..Len(primes)}
        \cup cache

\* Drop for RsaPrivateKey: d, primes and the cache zeroized, then released.
\* Zeroizing the Option zeroizes the cache and takes it, which drops it.
drop_key(k) ==
    LET d == zeroize_uint(k.d)
        primes == [i \in 1..Len(k.primes) |-> zeroize_uint(k.primes[i])]
        cache == IF k.precomputed = None THEN {}
                 ELSE drop_precomputed(zeroize_precomputed(k.precomputed))
    IN  {Released("d", d.v)} \cup {Released("prime", primes[i].v) : i \in 1..Len(primes)}
        \cup cache

\* What a call of from_components releases besides the key it returns. The
\* BigUint arguments d and primes are consumed by to_uint_exact, which drops
\* them and the byte copies of inner_to_uint as they are; an early return
\* (e too wide, one prime, recovery failed) drops d and the primes as they
\* are; only a key that fails validate() after the recovery is dropped as a
\* key, which wipes its d and its two primes. Nothing is recorded for a call
\* that panics.
released_by_from_components(e, d, primes, r) ==
    LET moved == {Released("d", d)} \cup {Released("prime", primes[i]) : i \in 1..Len(primes)}
        validated == primes = <<>> /\ FitsU64(e) /\ r \notin {"Ok", "RecoverFailed"}
    IN  IF r = "Panic" THEN {}
        ELSE IF validated THEN moved \cup {Released("d", 0), Released("prime", 0)}
        ELSE moved

\* What a call of from_primes or from_p_q releases: the primes it was given and,
\* once derived, d; all are BigUint values dropped as they are. Nothing is
\* recorded for a call that panics.
released_by_from_primes(primes, d, r) ==
    IF r = "Panic" THEN {}
    ELSE {Released("prime", primes[i]) : i \in 1..Len(primes)}
         \cup (IF d = -1 THEN {} ELSE {Released("d", d)})

(***************************************************************************)
(* Public key construction as a state machine.                             *)
(***************************************************************************)
PubNs == (0..MaxPubN) \cup {(2 ^ MAX_SIZE) - 1, 2 ^ MAX_SIZE, (2 ^ MAX_SIZE) + 1}
PubEs == 0..MaxPubE
PubSizes == (0..MaxMaxSize) \cup {MAX_SIZE}

InitPub ==
    /\ pc = "idle"
    /\ arg \in [op : {"new", "new_with_max_size"}, n : PubNs, e : PubEs, max_size : PubSizes]
    /\ arg.op = "new" => arg.max_size = MAX_SIZE
    /\ gen = NoGen
    /\ key = NoKey
    /\ res = "none"
    /\ val = "none"
    /\ rt = NoTrip
    /\ pres = "none"
    /\ freed = {}

\* RsaPublicKey::new: new_with_max_size at MAX_SIZE.
PubNew ==
    /\ pc = "idle" /\ arg.op = "new"
    /\ LET r == new_with_max_size(arg.n, arg.e, MAX_SIZE)
       IN  /\ res' = r.res
           /\ key' = r.key
           /\ pc' = IF r.res = "Panic" THEN "abort" ELSE "done"
    /\ UNCHANGED <<arg, gen, val, rt, pres, freed>>

PubNewWithMaxSize ==
    /\ pc = "idle" /\ arg.op = "new_with_max_size"
    /\ LET r == new_with_max_size(arg.n, arg.e, arg.max_size)
       IN  /\ res' = r.res
           /\ key' = r.key
           /\ pc' = IF r.res = "Panic" THEN "abort" ELSE "done"
    /\ UNCHANGED <<arg, gen, val, rt, pres, freed>>

NextPub == PubNew \/ PubNewWithMaxSize

SpecPub == InitPub /\ [][NextPub]_vars

(***************************************************************************)
(* Generation, construction and use of a private key as a state machine.   *)
(***************************************************************************)
GenEs == {2, 3, EXP, MAX_PUB_EXPONENT}

GenArgs ==
    [op : {"generate"}, nprimes : 0..MaxNPrimes, bit_size : 0..MaxBitSize, exp : GenEs]

KeyEs == {1, 2, 3, 5, 9}
KeyPrimeVals == {0, 1, 3, 5}

KeyArgs ==
    [op : {"from_components"}, n : 0..MaxN, e : KeyEs, d : 0..MaxD,
     primes : SeqOf(KeyPrimeVals, 0, MaxPrimes)]

Start(args) ==
    /\ pc = "idle"
    /\ arg \in args
    /\ gen = NoGen
    /\ key = NoKey
    /\ res = "none"
    /\ val = "none"
    /\ rt = NoTrip
    /\ pres = "none"
    /\ freed = {}

\* Where a constructor's result leaves the caller.
After(r) == IF r = "Ok" THEN "ready" ELSE IF r = "Panic" THEN "abort" ELSE "failed"

\* generate_multi_prime_key_with_exp up to the loop: the two size checks.
GenCall ==
    /\ pc = "idle" /\ arg.op = "generate"
    /\ LET c == size_check(arg.nprimes, arg.bit_size)
       IN  IF c # "Ok" THEN res' = c /\ pc' = "done"
           ELSE res' = "none" /\ pc' = "loop"
    /\ UNCHANGED <<arg, gen, key, val, rt, pres, freed>>

\* One iteration of the 'next loop: all primes drawn anew, then the checks.
\* `*prime = ...` drops the buffer it overwrites as it is: the zeros of the
\* initial vector in the first round, and the primes of a discarded round in
\* the round that follows it at once (recorded with the round that discards).
GenRound ==
    /\ pc = "loop"
    /\ \E primes \in Draws(0, arg.nprimes, initial_todo(arg.nprimes, arg.bit_size)) :
          LET r == round_checks(primes, arg.bit_size, arg.exp)
          IN  /\ gen' = r @@ round_trace(primes, arg.nprimes, arg.bit_size)
              /\ IF r.outcome = "ok" THEN res' = "Ok" /\ pc' = "generated"
                 ELSE res' = res /\ pc' = "loop"
              /\ freed' = freed
                    \cup (IF gen = NoGen THEN {Released("prime", 0)} ELSE {})
                    \cup (IF r.outcome = "ok" THEN {}
                          ELSE {Released("prime", primes[i]) : i \in 1..Len(primes)})
    /\ UNCHANGED <<arg, key, val, rt, pres>>

\* RsaPrivateKey::from_components on the components the generator returned.
BuildKey ==
    /\ pc = "generated"
    /\ LET r == from_components(gen.n, arg.exp, gen.d, gen.primes)
       IN  /\ res' = r.res /\ key' = r.key /\ pc' = After(r.res)
           /\ freed' = freed \cup released_by_from_components(arg.exp, gen.d, gen.primes, r.res)
    /\ UNCHANGED <<arg, gen, val, rt, pres>>

FromComponents ==
    /\ pc = "idle" /\ arg.op = "from_components"
    /\ LET r == from_components(arg.n, arg.e, arg.d, arg.primes)
       IN  /\ res' = r.res /\ key' = r.key /\ pc' = After(r.res)
           /\ freed' = freed \cup released_by_from_components(arg.e, arg.d, arg.primes, r.res)
    /\ UNCHANGED <<arg, gen, val, rt, pres>>

FromPrimes ==
    /\ pc = "idle" /\ arg.op = "from_primes"
    /\ LET r == from_primes(arg.primes, arg.e)
           d == IF Len(arg.primes) < 2 \/ ~Distinct(arg.primes) THEN -1
                ELSE compute_private_exponent_euler_totient(arg.primes, arg.e)
       IN  /\ res' = r.res /\ key' = r.key /\ pc' = After(r.res)
           /\ freed' = freed \cup released_by_from_primes(arg.primes, d, r.res)
    /\ UNCHANGED <<arg, gen, val, rt, pres>>

FromPQ ==
    /\ pc = "idle" /\ arg.op = "from_p_q"
    /\ LET r == from_p_q(arg.p, arg.q, arg.e)
           d == IF arg.p = arg.q THEN -1
                ELSE compute_private_exponent_carmicheal(arg.p, arg.q, arg.e)
       IN  /\ res' = r.res /\ key' = r.key /\ pc' = After(r.res)
           /\ freed' = freed \cup released_by_from_primes(<<arg.p, arg.q>>, d, r.res)
    /\ UNCHANGED <<arg, gen, val, rt, pres>>

\* validate() on the key; a panic aborts the program.
Validate ==
    /\ pc = "ready"
    /\ val' = validate(key)
    /\ pc' = IF val' = "Panic" THEN "abort" ELSE "ready"
    /\ UNCHANGED <<arg, gen, key, res, rt, pres, freed>>

\* rsa_encrypt of m, then rsa_decrypt of the ciphertext, blinded by r when r > 0.
RoundTrip ==
    /\ pc = "ready"
    /\ \E m \in 0..MaxMsg, r \in 0..MaxBlind :
          /\ m < key.n.v
          /\ r > 0 => Gcd(r, key.n.v) = 1
          /\ LET c == rsa_encrypt(key, m)
             IN  rt' = [m |-> m, r |-> r, c |-> c, out |-> rsa_decrypt(key, c, r)]
    /\ UNCHANGED <<pc, arg, gen, key, res, val, pres, freed>>

InitGen == Start(GenArgs)
NextGen == GenCall \/ GenRound \/ BuildKey \/ Validate
SpecGen == InitGen /\ [][NextGen]_vars

InitKey == Start(KeyArgs)
NextKey == FromComponents \/ Validate
SpecKey == InitKey /\ [][NextKey]_vars

\* The generator under a fair prime source: a round is always taken, and a
\* round that can succeed (some draw passes the three checks) eventually does.
FairArgs ==
    [op : {"generate"}, nprimes : {2, 3}, bit_size : SmallBitSize..MaxFairBits, exp : GenEs]

InitFair == Start(FairArgs)
FairGen ==
    /\ InitFair /\ [][NextGen]_vars
    /\ WF_vars(GenRound) /\ WF_vars(GenRound /\ pc' = "generated")

TripArgs ==
    [op : {"generate"}, nprimes : {2, 3}, bit_size : 12..MaxTripBits, exp : {3, EXP}]
    \cup [op : {"from_components"}, n : {15, 21, 35, 105}, e : {3, 5}, d : {1, 3, 5},
          primes : SeqOf({3, 5, 7}, 2, 3)]
    \cup [op : {"from_primes"}, primes : SeqOf({3, 5, 7, 9}, 1, 3), e : {3, 5}]
    \cup [op : {"from_p_q"}, p : {3, 5, 7, 9}, q : {3, 5, 7, 9}, e : {3, 5}]

InitTrip == Start(TripArgs)
NextTrip == GenCall \/ GenRound \/ BuildKey \/ FromComponents \/ FromPrimes \/ FromPQ \/ RoundTrip
SpecTrip == InitTrip /\ [][NextTrip]_vars

Spec == SpecGen

(***************************************************************************)
(* The life of a private key: explicit precompute, clearing the cache,     *)
(* the private operation, and destruction (key.rs).                        *)
(***************************************************************************)
\* clear_precomputed: the cache set to None; the old cache, if any, is dropped.
clear_precomputed(k) == [k EXCEPT !.precomputed = None]

\* An explicit call of precompute() on the key.
Precompute ==
    /\ pc = "ready"
    /\ LET r == precompute(key)
       IN  /\ pres' = r.res
           /\ key' = r.key
           /\ pc' = IF r.res = "Panic" THEN "abort" ELSE "ready"
    /\ UNCHANGED <<arg, gen, res, val, rt, freed>>

ClearPrecomputed ==
    /\ pc = "ready"
    /\ key' = clear_precomputed(key)
    /\ freed' = freed \cup (IF key.precomputed = None THEN {}
                            ELSE drop_precomputed(key.precomputed))
    /\ UNCHANGED <<pc, arg, gen, res, val, rt, pres>>

\* The private operation on a ciphertext c < n, blinded by r when r > 0. It
\* leaves the key as it is, so one operation per behaviour is recorded.
PrivateOp ==
    /\ pc = "ready" /\ rt = NoTrip
    /\ \E c \in (0..MaxMsg) \cup {key.n.v - 2, key.n.v - 1}, r \in 0..MaxBlind :
          /\ c >= 0 /\ c < key.n.v
          /\ r > 0 => Gcd(r, key.n.v) = 1
          /\ rt' = [m |-> -2, r |-> r, c |-> c, out |-> rsa_decrypt(key, c, r)]
    /\ UNCHANGED <<pc, arg, gen, key, res, val, pres, freed>>

\* The key goes out of scope.
DropKey ==
    /\ pc = "ready"
    /\ freed' = freed \cup drop_key(key)
    /\ key' = NoKey
    /\ pc' = "dropped"
    /\ UNCHANGED <<arg, gen, res, val, rt, pres>>

LifePrimeVals == {0, 1, 2, 3, 5, 17}

LifeArgs ==
    [op : {"from_components"}, n : {0, 15, 20, 35, 105}, e : {3, 5, 17}, d : {3, 5, 29},
     primes : SeqOf(LifePrimeVals, 0, MaxLifePrimes) \cup {<<3, 5, 7>>, <<5, 7>>, <<7, 7>>}]
    \cup [op : {"from_primes"}, primes : SeqOf({1, 2, 3, 5, 7, 9}, 0, MaxLifePrimes),
          e : {3, 5, 17}]
    \cup [op : {"from_p_q"}, p : {1, 2, 3, 5, 7, 9}, q : {1, 2, 3, 5, 7, 9}, e : {3, 5, 17}]
    \cup [op : {"generate"}, nprimes : {2, 3}, bit_size : {SmallBitSize}, exp : {3, EXP}]

InitLife == Start(LifeArgs)
NextLife ==
    \/ GenCall \/ GenRound \/ BuildKey
    \/ FromComponents \/ FromPrimes \/ FromPQ
    \/ Validate \/ Precompute \/ ClearPrecomputed \/ DropKey
SpecLife == InitLife /\ [][NextLife]_vars

(***************************************************************************)
(* Equality and hashing of keys (key.rs).                                  *)
(***************************************************************************)
\* BoxedUint ==: the limbs compared, a missing limb read as zero, so values of
\* different precision are equal when their numbers are.
uint_eq(a, b) == a.v = b.v

\* Hash of a BoxedUint: its limbs, hence its number and its precision.
uint_hash(a) == <<a.v, a.prec>>

\* to_public_key: the public components of a private key.
to_public_key(k) == [kind |-> "public", n |-> k.n, e |-> k.e]

\* PartialEq for RsaPublicKey: n and e.
public_eq(a, b) == uint_eq(a.n, b.n) /\ a.e = b.e

\* Hash for RsaPublicKey: the domain separator, n and e.
public_hash(k) == <<"RsaPublicKey", uint_hash(k.n), k.e>>

\* Variant of private_eq that compares every field, the cache included.
private_eq_derived(a, b) ==
    /\ public_eq(to_public_key(a), to_public_key(b))
    /\ uint_eq(a.d, b.d)
    /\ Len(a.primes) = Len(b.primes)
    /\ \A i \in 1..Len(a.primes) : uint_eq(a.primes[i], b.primes[i])
    /\ a.precomputed = b.precomputed

\* PartialEq for RsaPrivateKey: the public components, d and the primes.
private_eq(a, b) ==
    /\ public_eq(to_public_key(a), to_public_key(b))
    /\ uint_eq(a.d, b.d)
    /\ Len(a.primes) = Len(b.primes)
    /\ \A i \in 1..Len(a.primes) : uint_eq(a.primes[i], b.primes[i])

\* Hash for RsaPrivateKey: the domain separator and the public components.
private_hash(k) == <<"RsaPrivateKey", public_hash(to_public_key(k))>>

EqArgs ==
    [op : {"from_components"}, n : {15, 35}, e : {3, 5}, d : {3, 5},
     primes : SeqOf({3, 5, 7}, 2, 2) \cup {<<3, 5, 7>>}]

\* The keys a second call of from_components can return, with their cache or
\* after clear_precomputed.
OtherKeys ==
    UNION {LET r == from_components(a.n, a.e, a.d, a.primes)
           IN  IF r.res = "Ok" THEN {r.key, clear_precomputed(r.key)} ELSE {} : a \in EqArgs}

\* The key compared with another key: == and the two hashes, for the private
\* keys and for their public components.
Compare ==
    /\ pc = "ready" /\ rt = NoTrip
    /\ \E other \in OtherKeys :
          rt' = [m |-> -3, other |-> other,
                 eq |-> private_eq(key, other),
                 hash_eq |-> private_hash(key) = private_hash(other),
                 pub_eq |-> public_eq(to_public_key(key), to_public_key(other)),
                 pub_hash_eq |-> public_hash(to_public_key(key))
                                    = public_hash(to_public_key(other))]
    /\ UNCHANGED <<pc, arg, gen, key, res, val, pres, freed>>

InitEq == Start(EqArgs)
NextEq == FromComponents \/ Precompute \/ ClearPrecomputed \/ Compare
SpecEq == InitEq /\ [][NextEq]_vars

\* The private operation on keys from every constructor, with and without cache.
InitOp == Start(TripArgs)
NextOp ==
    \/ GenCall \/ GenRound \/ BuildKey \/ FromComponents \/ FromPrimes \/ FromPQ
    \/ ClearPrecomputed \/ PrivateOp
SpecOp == InitOp /\ [][NextOp]_vars

(***************************************************************************)
(* The precision conversions as a state machine (key.rs).                  *)
(***************************************************************************)
\* The bit lengths needed_bits is asked about (values of that length are too
\* long to write down beyond a few limbs) and the values to_uint converts.
QuantPrecs == {LimbBits, 2 * LimbBits, 3 * LimbBits, 4 * LimbBits}
QuantModuli == {[v |-> m, prec |-> w] : m \in {3, 7, 15, 17, 255}, w \in {LimbBits, 2 * LimbBits}}

QuantArgs ==
    [op : {"needed_bits"}, n_bits : 0..MaxQuantBits]
    \cup [op : {"to_uint"}, x : 0..MaxQuantN]
    \cup [op : {"to_uint_exact"}, x : 0..MaxQuantN, nbits : QuantPrecs]
    \cup {a \in [op : {"reduce"}, x : 0..MaxQuantN, prec : QuantPrecs, p : QuantModuli] :
             Bits(a.x) <= a.prec /\ Bits(a.p.v) <= a.p.prec}

InitQuant == Start(QuantArgs)

\* needed_bits on a value of arg.n_bits bits, and the precision to_uint gives it.
NeededBits ==
    /\ pc = "idle" /\ arg.op = "needed_bits"
    /\ rt' = [m |-> -4, nbits |-> ladder_bucket(arg.n_bits), prec |-> to_uint_prec(arg.n_bits)]
    /\ pc' = "done"
    /\ UNCHANGED <<arg, gen, key, res, val, pres, freed>>

\* to_uint on the value arg.x.
ToUint ==
    /\ pc = "idle" /\ arg.op = "to_uint"
    /\ rt' = [m |-> -5, nbits |-> needed_bits(arg.x), u |-> to_uint(arg.x)]
    /\ pc' = "done"
    /\ UNCHANGED <<arg, gen, key, res, val, pres, freed>>

\* to_uint_exact on the value arg.x for the precision arg.nbits.
ToUintExact ==
    /\ pc = "idle" /\ arg.op = "to_uint_exact"
    /\ LET r == to_uint_exact(arg.x, arg.nbits)
       IN  /\ rt' = [m |-> -6, panic |-> ~r.ok, u |-> r.u]
           /\ pc' = IF r.ok THEN "done" ELSE "abort"
    /\ UNCHANGED <<arg, gen, key, res, val, pres, freed>>

\* reduce on the value arg.x held at precision arg.prec, for the modulus arg.p.
Reduce ==
    /\ pc = "idle" /\ arg.op = "reduce"
    /\ LET r == reduce([v |-> arg.x, prec |-> arg.prec], arg.p)
       IN  /\ rt' = [m |-> -7, panic |-> ~r.ok, r |-> r.r]
           /\ pc' = IF r.ok THEN "done" ELSE "abort"
    /\ UNCHANGED <<arg, gen, key, res, val, pres, freed>>

NextQuant == NeededBits \/ ToUint \/ ToUintExact \/ Reduce
SpecQuant == InitQuant /\ [][NextQuant]_vars

(***************************************************************************)
(* Properties of the public key constructors (SpecPub).                    *)
(***************************************************************************)
\* The size limit a call applies: its argument, or MAX_SIZE for new.
LimitOf(a) == IF a.op = "new" THEN MAX_SIZE ELSE a.max_size

\* The conditions the constructor documents for a well-formed public key.
PublicWellFormed(n, e, max_size) ==
    /\ Bits(n) <= max_size
    /\ MIN_PUB_EXPONENT <= e /\ e <= MAX_PUB_EXPONENT
    /\ e % 2 = 1
    /\ e < n
    /\ n % 2 = 1

\* C10: new_with_max_size returns Ok exactly when the bit length of n is at
\* most max_size, 2 <= e <= MAX_PUB_EXPONENT, e is odd, e < n and n is odd; a
\* modulus longer than max_size gives ModulusTooLarge whatever e is; new
\* applies the same checks with max_size = MAX_SIZE; an Ok key holds n and e.
C10_PublicKeyChecks ==
    pc # "idle" =>
        /\ pc = "done"
        /\ (res = "Ok") <=> PublicWellFormed(arg.n, arg.e, LimitOf(arg))
        /\ Bits(arg.n) > LimitOf(arg) => res = "ModulusTooLarge"
        /\ res = "Ok" => key.kind = "public" /\ key.n.v = arg.n /\ key.e = arg.e
        /\ res # "Ok" => key = NoKey

\* A key accepted by new_with_max_size whose modulus is exactly max_size bits long.
C10_Witness ==
    /\ pc = "done" /\ res = "Ok"
    /\ arg.op = "new_with_max_size" /\ Bits(arg.n) = arg.max_size
    /\ arg.e = MAX_PUB_EXPONENT

EstimateTooLow(nprimes, bit_size) == PiMilli(bit_size \div nprimes) < 1000 * nprimes

\* C8: the generator reports exactly two errors: NprimesTooSmall when
\* nprimes < 2, checked first, and TooFewPrimes when bit_size is below the
\* small-size threshold and the estimate is below nprimes; both before any
\* prime is drawn. A round that fails a check is retried and returns no error.
C8_GeneratorErrors ==
    /\ pc \in {"loop", "generated", "done"} =>
          /\ (pc = "done") <=> (res \in {"NprimesTooSmall", "TooFewPrimes"})
          /\ (res = "NprimesTooSmall") <=> (arg.nprimes < 2)
          /\ (res = "TooFewPrimes") <=>
                (/\ arg.nprimes >= 2
                 /\ arg.bit_size < SmallBitSize
                 /\ EstimateTooLow(arg.nprimes, arg.bit_size))
          /\ pc = "done" => gen = NoGen
          /\ pc = "loop" => res = "none"
          /\ pc = "generated" => res = "Ok" /\ gen.outcome = "ok"
    /\ gen.outcome \in {"dup", "bits", "noinv"} => pc = "loop" /\ res = "none"

\* A round was discarded for the length of its modulus and the loop goes on.
C8_Witness == pc = "loop" /\ gen.outcome = "bits" /\ res = "none"

\* C9: for every call that passes the size checks and every public exponent,
\* the loop ends and a key is returned.
C9_GenerationTerminates ==
    (arg.op = "generate" /\ pc = "loop") ~> (pc = "generated")

(***************************************************************************)
(* Properties of validate (SpecKey).                                       *)
(***************************************************************************)
\* The true product of a key's primes, at no fixed precision.
TrueProduct(k) == Product(Vals(k.primes))

\* The public checks pass on the key (validate's first step).
PublicOk(k) == check_public(k.n.v, k.e) = "Ok"

\* d * e leaves remainder one modulo prime - 1, read over the integers.
Congruent(k, i) ==
    /\ k.primes[i].v >= 2
    /\ (k.d.v * k.e) % Max(1, k.primes[i].v - 1) = 1 % Max(1, k.primes[i].v - 1)

\* C4: a key on which validate() returns Ok satisfies a^(d*e) = a mod n for
\* every a coprime to n.
C4_ValidateImpliesRsa ==
    (pc = "ready" /\ val = "Ok") =>
        \A a \in 1..(key.n.v - 1) :
            Gcd(a, key.n.v) = 1 => PowMod(a, key.d.v * key.e, key.n.v) = a

\* C5: validate() rejects with InvalidModulus every key whose prime product
\* differs from n, products that overflow the precision of n included.
C5_WrongProductRejected ==
    (/\ val # "none" /\ PublicOk(key)
     /\ \A i \in 1..Len(key.primes) : key.primes[i].v >= 1
     /\ TrueProduct(key) # key.n.v)
        => val = "InvalidModulus"

\* C6: validate() returns InvalidPrime for every key that contains a prime
\* equal to 0 or 1, before any reduction modulo prime - 1, so that no division
\* by zero or abort occurs.
C6_SmallPrimeRejected ==
    (/\ val # "none" /\ PublicOk(key)
     /\ \E i \in 1..Len(key.primes) : key.primes[i].v <= 1)
        => val = "InvalidPrime"

\* C7: validate() returns Ok only if d * e mod (p_i - 1) = 1 for every prime,
\* and returns InvalidExponent for the first prime that fails it once the
\* public checks and the product check have passed.
C7_CongruenceChecked ==
    /\ (pc = "ready" /\ val = "Ok") => \A i \in 1..Len(key.primes) : Congruent(key, i)
    /\ (/\ val # "none" /\ PublicOk(key)
        /\ \A i \in 1..Len(key.primes) : key.primes[i].v >= 1
        /\ ProductLoop(key.primes, 1, One(key.n.prec)).m.v = key.n.v
        /\ \E i \in 1..Len(key.primes) : ~Congruent(key, i))
          => val = "InvalidExponent"

KeyInvariant(k) ==
    /\ \A i \in 1..Len(k.primes) : IsPrime(k.primes[i].v)
    /\ \A i, j \in 1..Len(k.primes) : i # j => k.primes[i].v # k.primes[j].v
    /\ TrueProduct(k) = k.n.v
    /\ \A i \in 1..Len(k.primes) : Congruent(k, i)

\* The call that made the key was given what the round trip relies on:
\* primes for from_primes and from_p_q, components that satisfy the key
\* invariant for from_components; generation needs nothing more.
TripInputOk ==
    CASE arg.op = "generate" -> TRUE
      [] arg.op = "from_primes" -> \A i \in 1..Len(arg.primes) : IsPrime(arg.primes[i])
      [] arg.op = "from_p_q" -> IsPrime(arg.p) /\ IsPrime(arg.q)
      [] OTHER -> KeyInvariant(key)

SuppliedKey(a) ==
    LET n == to_uint(a.n)
    IN  [kind |-> "private", n |-> n, e |-> a.e,
         d |-> to_uint_exact(a.d, n.prec).u,
         primes |-> [i \in 1..Len(a.primes) |-> to_uint_exact(a.primes[i], n.prec).u],
         precomputed |-> None]

\* from_components reaches its last step, the precompute call: e fits a u64,
\* d and the primes fit the precision of n, n is odd, two or more primes.
ReachesPrecompute(a) ==
    /\ FitsU64(a.e)
    /\ to_uint_exact(a.d, to_uint(a.n).prec).ok
    /\ \A i \in 1..Len(a.primes) : to_uint_exact(a.primes[i], to_uint(a.n).prec).ok
    /\ ResidueParamsOk(a.n) /\ a.n # 0
    /\ Len(a.primes) >= 2

\* The supplied values are stored unchanged: conversion back gives the arguments.
StoredAsSupplied(k, a) ==
    /\ to_biguint(k.n) = a.n
    /\ k.e = a.e
    /\ to_biguint(k.d) = a.d
    /\ Len(k.primes) = Len(a.primes)
    /\ \A i \in 1..Len(a.primes) : to_biguint(k.primes[i]) = a.primes[i]

\* C11: no call of from_components, from_primes or from_p_q on caller-supplied
\* values, and no call of validate() or precompute() on a constructed key, ends
\* in an irrecoverable abort: each returns Ok or a typed error.
C11_NoAbort ==
    /\ pc # "abort"
    /\ res # "Panic" /\ val # "Panic" /\ pres # "Panic"

\* C12: when from_components is given two or more primes and the precompute
\* step at its end does not succeed, the call still returns Ok, the key holds
\* n, e, d and the primes intact and has no cache, and a later explicit
\* precompute() reports a typed error.
C12_PrecomputeFailureSwallowed ==
    (/\ arg.op = "from_components" /\ pc \notin {"idle", "dropped"}
     /\ ReachesPrecompute(arg)
     /\ precompute(SuppliedKey(arg)).res # "Ok")
    => /\ res = "Ok"
       /\ pc = "ready"
       /\ StoredAsSupplied(key, arg)
       /\ key.precomputed = None
       /\ pres \in {"none", "InvalidPrime"}

\* C13: from_components does not validate supplied primes: one prime gives
\* NprimesTooSmall, and two or more primes give Ok and a key that stores n, e,
\* d and the primes exactly as supplied, whatever validate() says of them.
C13_NoValidationOfSupplied ==
    (arg.op = "from_components" /\ pc \notin {"idle", "dropped"} /\ FitsU64(arg.e))
    => /\ Len(arg.primes) = 1 => res = "NprimesTooSmall" /\ key = NoKey
       /\ Len(arg.primes) >= 2 => res = "Ok" /\ StoredAsSupplied(key, arg)

\* C14: from_components with an empty prime list runs the factor recovery and
\* then validate(): an Ok key has exactly two primes and passes validate(), and
\* a failure of the recovery or of the validation is returned as an error,
\* with no key.
C14_RecoveredKeyValidated ==
    (arg.op = "from_components" /\ arg.primes = <<>> /\ pc # "idle")
    => \/ /\ res = "Ok"
          /\ pc \in {"ready", "dropped"}
          /\ pc = "ready" => Len(key.primes) = 2 /\ validate(key) = "Ok"
       \/ /\ res \notin {"Ok", "Panic"}
          /\ pc = "failed"
          /\ key = NoKey

\* C15: from_primes answers NprimesTooSmall to fewer than two primes and
\* InvalidPrime to two or more primes of which two, at any positions, are
\* equal; from_p_q answers InvalidPrime to p = q; no key is built in these cases.
C15_PrimeListRejected ==
    /\ (arg.op = "from_primes" /\ pc # "idle")
       => /\ Len(arg.primes) < 2 => res = "NprimesTooSmall" /\ key = NoKey /\ pc = "failed"
          /\ (Len(arg.primes) >= 2 /\ ~Distinct(arg.primes))
             => res = "InvalidPrime" /\ key = NoKey /\ pc = "failed"
    /\ (arg.op = "from_p_q" /\ pc # "idle" /\ arg.p = arg.q)
       => res = "InvalidPrime" /\ key = NoKey /\ pc = "failed"

\* Three primes, the first and the last equal, rejected by from_primes.
C15_Witness ==
    /\ arg.op = "from_primes" /\ pc = "failed"
    /\ Len(arg.primes) = 3 /\ arg.primes[1] = arg.primes[3] /\ arg.primes[1] # arg.primes[2]
    /\ res = "InvalidPrime" /\ key = NoKey

(***************************************************************************)
(* Properties of the cache of CRT values (SpecLife).                       *)
(***************************************************************************)
\* C16: a call of precompute() on a key without cache succeeds exactly when
\* primes[1] has an inverse modulo primes[0], and otherwise fails with
\* InvalidPrime and changes nothing; the cache it stores holds
\* dp = d mod (primes[0] - 1), dq = d mod (primes[1] - 1) and qinv with
\* qinv * primes[1] = 1 mod primes[0], whatever the further primes are.
C16_PrecomputeValues ==
    [][(Precompute /\ key.precomputed = None)
       => LET p == key.primes[1].v
              q == key.primes[2].v
              c == key'.precomputed
          IN  /\ Gcd(q, p) = 1
                 => /\ pres' = "Ok"
                    /\ c # None
                    /\ c.dp = key.d.v % (p - 1)
                    /\ c.dq = key.d.v % (q - 1)
                    /\ (c.qinv * q) % p = 1
                    /\ c.p_params = p /\ c.q_params = q
                    /\ [key' EXCEPT !.precomputed = None] = key
              /\ Gcd(q, p) # 1 => pres' = "InvalidPrime" /\ key' = key]_vars

\* A three-prime key whose cache was cleared and computed again by precompute().
C16_Witness ==
    /\ pc = "ready" /\ pres = "Ok"
    /\ Len(key.primes) = 3
    /\ Released("dp", 0) \in freed
    /\ key.precomputed # None
    /\ key.precomputed.dp = key.d.v % (key.primes[1].v - 1)

\* C17: a call of precompute() on a key whose cache is present returns Ok and
\* leaves the cache (dp, dq, qinv and both reduction contexts) and n, e, d
\* and the primes unchanged; so does every further call.
C17_PrecomputeIdempotent ==
    [][(Precompute /\ key.precomputed # None) => (pres' = "Ok" /\ key' = key)]_vars

\* precompute() was called on a key that still had the cache of its construction.
C17_Witness ==
    /\ pc = "ready" /\ pres = "Ok"
    /\ Released("dp", 0) \notin freed
    /\ key.precomputed # None

C19_KeyWipedOnDrop ==
    [][/\ DropKey
          => freed' = freed \cup {Released("d", 0), Released("prime", 0)}
                        \cup (IF key.precomputed = None THEN {}
                              ELSE {Released("dp", 0), Released("dq", 0)})
       /\ (ClearPrecomputed /\ key.precomputed # None)
          => freed' = freed \cup {Released("dp", 0), Released("dq", 0)}]_vars

\* A three-prime key destroyed with its cache present.
C19_Witness ==
    /\ pc = "dropped"
    /\ arg.op = "from_primes" /\ Len(arg.primes) = 3
    /\ {Released("d", 0), Released("prime", 0), Released("dp", 0), Released("dq", 0)}
          \subseteq freed

\* C20: every buffer that held d, a prime, dp or dq is zero when it is
\* released, on every path: the components the generator returns, the primes
\* of a discarded round, and the d and primes of a from_components call that
\* returns an error.
C20_EverySecretWiped == \A x \in freed : x.zero

(***************************************************************************)
(* Properties of key equality and hashing (SpecEq).                        *)
(***************************************************************************)
\* A key without its cache, as stored.
Uncached(k) == [k EXCEPT !.precomputed = None]

\* C21: public keys are equal exactly when n and e are the same, private keys
\* exactly when the public components, d and the primes are the same; the
\* cache does not count, so a key equals itself after precompute() and after
\* clear_precomputed(), and equal keys have equal hashes.
C21_EqualityIgnoresCache ==
    /\ (pc = "ready" /\ rt # NoTrip) =>
          /\ rt.pub_eq <=> (key.n = rt.other.n /\ key.e = rt.other.e)
          /\ rt.eq <=> Uncached(key) = Uncached(rt.other)
          /\ rt.eq => rt.hash_eq
          /\ rt.pub_eq => rt.pub_hash_eq
    /\ pc = "ready" =>
          /\ private_eq(key, key)
          /\ private_eq(key, precompute(key).key)
          /\ private_eq(key, clear_precomputed(key))
          /\ private_hash(key) = private_hash(precompute(key).key)
          /\ private_hash(key) = private_hash(clear_precomputed(key))

\* A key without cache found equal to a key that has its cache.
C21_Witness ==
    /\ pc = "ready" /\ rt # NoTrip
    /\ rt.eq /\ rt.hash_eq
    /\ key.precomputed = None /\ rt.other.precomputed # None

(***************************************************************************)
(* Properties of the generator's bit budget (SpecGen).                     *)
(***************************************************************************)
RECURSIVE SumSeq(_)
SumSeq(s) == IF s = <<>> THEN 0 ELSE Head(s) + SumSeq(Tail(s))

\* C22: every round, a retry included, starts todo at bit_size (plus
\* (nprimes - 2) / 5 from seven primes on) and draws nprimes primes; when the
\* primes have exactly the lengths asked for, todo never goes below zero and
\* is zero after the last prime, the lengths asked for sum to the start
\* value, and two of them differ by at most one bit.
C22_RoundBudget ==
    gen # NoGen =>
       /\ gen.start = arg.bit_size
                        + (IF arg.nprimes >= ExtraBitsFrom THEN (arg.nprimes - 2) \div 5 ELSE 0)
       /\ Len(gen.req) = arg.nprimes
       /\ gen.req[1] = gen.start \div arg.nprimes
       /\ gen.exact =>
             /\ gen.low >= 0
             /\ gen.todo = 0
             /\ SumSeq(gen.req) = gen.start
             /\ \A i, j \in 1..Len(gen.req) : gen.req[i] - gen.req[j] \in {-1, 0, 1}

\* A discarded round of three primes with unequal lengths asked for.
C22_Witness ==
    /\ pc = "loop" /\ gen # NoGen /\ gen.outcome # "ok"
    /\ arg.nprimes = 3 /\ gen.exact
    /\ gen.req[1] # gen.req[3]

(***************************************************************************)
(* The number of primes of a key (SpecLife).                               *)
(***************************************************************************)
\* C23: a key returned as Ok by generation, from_components, from_p_q or
\* from_primes has at least two primes, also after any calls of precompute(),
\* clear_precomputed() and validate(), so precompute() finds primes[0] and
\* primes[1]; a single supplied prime is turned down with NprimesTooSmall.
C23_AtLeastTwoPrimes ==
    /\ pc = "ready" =>
          /\ Len(key.primes) >= 2
          /\ Len(clear_precomputed(key).primes) >= 2
          /\ Len(precompute(key).key.primes) >= 2
    /\ res = "Ok" => (pc \in {"ready", "dropped", "generated"} \/ val = "Panic" \/ pres = "Panic")
    /\ (/\ arg.op = "from_components" /\ pc # "idle"
        /\ Len(arg.primes) = 1
        /\ FitsU64(arg.e)
        /\ ResidueParamsOk(arg.n)
        /\ to_uint_exact(arg.d, to_uint(arg.n).prec).ok
        /\ to_uint_exact(arg.primes[1], to_uint(arg.n).prec).ok)
       => res = "NprimesTooSmall" /\ key = NoKey

\* A key whose two primes were recovered, after its cache was cleared and
\* computed again.
C23_Witness ==
    /\ pc = "ready" /\ arg.op = "from_components" /\ arg.primes = <<>>
    /\ Len(key.primes) = 2
    /\ pres = "Ok" /\ key.precomputed # None /\ Released("dp", 0) \in freed

(***************************************************************************)
(* Properties of the precision conversions (SpecQuant).                    *)
(***************************************************************************)
\* The ladder of precisions, and its widest member.
Ladder == {LimbBits * (2 ^ k) : k \in 0..8}
LadderTop == LimbBits * (2 ^ 8)

\* The smallest member of the ladder that is at least b.
SmallestAtLeast(nbits, b) ==
    /\ nbits \in Ladder
    /\ nbits >= b
    /\ \A l \in Ladder : l >= b => nbits <= l

\* C24: needed_bits gives, for every value, the smallest member of the ladder
\* that is at least the value's bit length, and to_uint returns the value
\* unchanged at a precision of at least that many bits.
C24_SmallestLadderMember ==
    pc = "done" =>
       /\ arg.op = "needed_bits" => SmallestAtLeast(rt.nbits, arg.n_bits)
       /\ arg.op = "to_uint"
          => /\ SmallestAtLeast(rt.nbits, Bits(arg.x))
             /\ rt.u.v = arg.x /\ rt.u.prec >= rt.nbits

\* C24, amended: for a value no longer than the widest member of the ladder
\* needed_bits gives the smallest member that is at least the bit length;
\* for a longer value it gives the widest member, which is less than the bit
\* length. to_uint returns the value unchanged at a precision of at least
\* needed_bits and at least its bit length.
C24_SmallestLadderMemberUpToTop ==
    pc = "done" =>
       /\ (arg.op = "needed_bits" /\ arg.n_bits <= LadderTop)
          => SmallestAtLeast(rt.nbits, arg.n_bits)
       /\ (arg.op = "needed_bits" /\ arg.n_bits > LadderTop)
          => rt.nbits = LadderTop /\ rt.nbits < arg.n_bits
       /\ arg.op = "needed_bits" => rt.prec >= rt.nbits /\ rt.prec >= arg.n_bits
       /\ arg.op = "to_uint"
          => /\ SmallestAtLeast(rt.nbits, Bits(arg.x))
             /\ rt.u.v = arg.x
             /\ rt.u.prec = to_uint_prec(Bits(arg.x))
             /\ rt.u.prec >= rt.nbits /\ rt.u.prec >= Bits(arg.x)

\* A value one bit longer than the widest member of the ladder.
C24_Witness ==
    /\ pc = "done" /\ arg.op = "needed_bits"
    /\ arg.n_bits = LadderTop + 1
    /\ rt.nbits = LadderTop

\* C25: a precision conversion keeps the value or aborts: to_uint_exact aborts
\* when the value occupies more bits than the target precision and returns
\* the value otherwise, and reduce aborts when its input occupies more bits
\* than the precision of the modulus, so that what it returns is the residue
\* of the whole input.
C25_NoSilentTruncation ==
    /\ (arg.op = "to_uint_exact" /\ pc # "idle")
       => /\ Bits(arg.x) > arg.nbits => rt.panic
          /\ ~rt.panic => rt.u.v = arg.x /\ rt.u.prec = arg.nbits
    /\ (arg.op = "reduce" /\ pc # "idle")
       => /\ Bits(arg.x) > arg.p.prec => rt.panic
          /\ ~rt.panic => rt.r = arg.x % arg.p.v

=============================================================================
